---- MODULE Spec2Model ----
(***************************************************************************)
(* A model of src/client.py: the ds-sim scheduling client.                 *)
(*                                                                         *)
(* The client is one sequential process, main().  Every socket operation   *)
(* (sock.sendall, recv_line) is one step of the model; the local           *)
(* computation that follows it, up to the next socket operation, belongs   *)
(* to the same step.  The simulator is the environment: it answers each    *)
(* command with a line (or a batch) of its choice, may close the           *)
(* connection, and a socket call may raise.                                *)
(*                                                                         *)
(* Environment assumptions (the peer, not the client):                     *)
(*  - the peer frames its answers as the protocol says: one line per       *)
(*    command, and for GETS either one non-DATA line or DATA n, n record   *)
(*    lines after the first OK and "." after the second;                   *)
(*  - a close of the peer is seen by the client as a zero-length read;     *)
(*    a write raises only after such a close has been seen, a read may     *)
(*    raise at any time (connection reset);                                *)
(*  - GETS All lists every (type, id) once.                                *)
(* Server costs are non-negative integers and the ECT score is scaled by   *)
(* CostScale so that it stays an integer.                                  *)
(***************************************************************************)
EXTENDS Integers, Sequences, FiniteSets, TLC

\* ---- bounds of the model
MaxEvents == 2      \* events answered to REDY before the simulator ends the run
MaxServers == 2     \* records of the GETS All reply
MaxRecs == 1        \* records of a GETS Avail / GETS Capable reply

\* ---- program constants
CostScale == 1000   \* score += 0.001 * cost * rt, scaled to integers
MinJobParts == 7    \* len(parts) < 7: the job event is skipped
MinJcplParts == 5   \* len(parts) >= 5: the JCPL event is used

None == <<>>

Max(a, b) == IF a >= b THEN a ELSE b

\* ---- the inputs the environment draws from
Algos == {"fc", "fafc", "ect"}
Types == {"a", "b"}
Ids == {"0"}
ServerKeys == {<<t, i>> : t \in Types, i \in Ids}
Capacities == {<<1, 1, 1>>, <<2, 2, 2>>}
CurStarts == {0}
Replies == {"OK", "ERR"}

\* int(token): the numeric tokens of the model
NumTokens == {"0", "1", "2", "5", "7", "600"}
IsNum(tok) == tok \in NumTokens
IntOf(tok) ==
  CASE tok = "0" -> 0
    [] tok = "1" -> 1
    [] tok = "2" -> 2
    [] tok = "5" -> 5
    [] tok = "7" -> 7
    [] tok = "600" -> 600

\* the order of str on the type names, and of (type, int(id)) tuples
TypeRank(t) == IF t = "a" THEN 0 ELSE 1
KeyLess(s, b) ==
  \/ TypeRank(s.type) < TypeRank(b.type)
  \/ /\ s.type = b.type
     /\ IntOf(s.id) < IntOf(b.id)

\* a record line of GETS All, parsed; the cost goes with the server type
TypeCost(t) == IF t = "a" THEN 2 ELSE 0
ServerInfos ==
  {[type |-> k[1], id |-> k[2], cores |-> c[1], mem |-> c[2], disk |-> c[3],
    cost |-> TypeCost(k[1]), finish_time |-> f] :
     k \in ServerKeys, c \in Capacities, f \in CurStarts}

\* a record line of GETS Avail / Capable, parsed: choose_fafc and pick_fastest
\* read its type, id and cores only
AvailRecs ==
  {[type |-> k[1], id |-> k[2], cores |-> c] : k \in ServerKeys, c \in {1, 2}}

Key(s) == <<s.type, s.id>>

\* the event lines, split on white space
Demands ==
  {<<"1", "1", "1">>, <<"2", "1", "1">>, <<"1", "2", "1">>, <<"1", "1", "2">>}
JobEvents ==
  {<<"JOBN", "0", "7", d[1], d[2], d[3], "600">> : d \in Demands}
    \cup {<<"JOBN", "1", "7", "1", "1", "1", "0">>,
          <<"JOBP", "1", "7", "1", "1", "1", "600">>}
\* the job (cores 1, memory 1, disk 1, estRuntime 600) with estRuntime first
EstFirstJobEvents == {<<"JOBN", "0", "7", "600", "1", "1", "1">>}
ShortJobEvents == {<<"JOBN", "0", "7", "1", "1", "1">>}
BadJobEvents == {<<"JOBN", "x", "7", "1", "1", "1", "1">>}
JcplEvents ==
  {<<"JCPL", "0", "7", k[1], k[2]>> : k \in ServerKeys}
    \cup {<<"JCPL", "5", k[1], k[2], "7">> : k \in ServerKeys}
    \cup {<<"JCPL", "5">>}
OtherEvents ==
  {<<"RESF", "a", "0", "5">>, <<"RESR", "a", "0", "5">>, <<"CHKQ">>, <<"ERR">>}
\* a line whose first token is no tag of the protocol but begins like one
LongTagEvents == {<<"JOBNX", "1", "7", "1", "1", "1", "0">>}
Events ==
  JobEvents \cup EstFirstJobEvents \cup ShortJobEvents \cup BadJobEvents
    \cup JcplEvents \cup OtherEvents \cup LongTagEvents

\* event.startswith(tag) for the four-letter tags: the first four characters
\* of the line, which begins with its first token
Head4(tok) == IF tok = "JOBNX" THEN "JOBN" ELSE tok

VARIABLES
  pc,            \* the position of main()
  conn,          \* "open", or "closed" once a zero-length read was seen
  algo,          \* args.algo.lower()
  resp1, resp2,  \* the replies to HELO and AUTH
  n_recs, i_rec, \* the record count of the DATA header, records read so far
  server_state,  \* the infos of GETS All in insertion order (also all_servers)
  current_time,
  event,         \* parts of the event being handled
  query,         \* "Avail" or "Capable": the GETS of choose_fafc in progress
  servers,       \* the list gets_servers is building
  target,        \* best_key of the SCHD command
  quitCode,      \* the sys.exit() argument of the shutdown in progress
  exitStatus,    \* -1 while running, then the exit status of the process
  raised,        \* the exception that ended the process, "" when none did
  nEvents,       \* events received so far
  \* ---- history of the conversation
  sentKinds,     \* the kinds of message written so far
  outstanding,   \* commands whose response is not consumed in full
  respLeft,      \* lines of the current response not yet read
  turn,          \* the kinds of message written since the last REDY
  reply,         \* the last line recv_line returned
  ft0,           \* server_state when the last REDY was written
  quitTried      \* sock.sendall(b"QUIT\n") was called

vars ==
  <<pc, conn, algo, resp1, resp2, n_recs, i_rec, server_state, current_time,
    event, query, servers, target, quitCode, exitStatus, raised, nEvents,
    sentKinds, outstanding, respLeft, turn, reply, ft0, quitTried>>

Init ==
  /\ pc = "banner"
  /\ conn = "open"
  /\ algo \in Algos
  /\ resp1 = ""
  /\ resp2 = ""
  /\ n_recs = 0
  /\ i_rec = 0
  /\ server_state = <<>>
  /\ current_time = 0
  /\ event = <<>>
  /\ query = ""
  /\ servers = <<>>
  /\ target = None
  /\ quitCode = 0
  /\ exitStatus = -1
  /\ raised = ""
  /\ nEvents = 0
  /\ sentKinds = {}
  /\ outstanding = 0
  /\ respLeft = 0
  /\ turn = <<>>
  /\ reply = ""
  /\ ft0 = <<>>
  /\ quitTried = FALSE

\* ---- the socket -------------------------------------------------------

\* sock.sendall(msg) returned: msg is written.  Every message but the OK
\* acknowledgement of a batch is a command, which the peer answers.
Sent(kind) ==
  /\ conn' = conn
  /\ sentKinds' = sentKinds \cup {kind}
  /\ turn' = Append(IF kind = "REDY" THEN <<>> ELSE turn, kind)
  /\ reply' = reply
  /\ ft0' = IF kind = "REDY" THEN server_state ELSE ft0
  /\ outstanding' = IF kind = "OK" THEN outstanding ELSE outstanding + 1
  /\ respLeft' = IF kind = "OK" THEN respLeft ELSE respLeft + 1

\* recv_line returned a line of `kind`; `more` further lines of the same
\* response follow it (the n records and the sentinel after a DATA header).
Received(kind, more) ==
  /\ conn = "open"
  /\ conn' = conn
  /\ reply' = kind
  /\ respLeft' = Max(respLeft - 1, 0) + more
  /\ outstanding' = IF Max(respLeft - 1, 0) + more = 0
                    THEN Max(outstanding - 1, 0) ELSE outstanding
  /\ UNCHANGED <<sentKinds, turn, ft0>>

\* recv_line returned "": sock.recv gave no bytes, the peer has closed.
ReceivedEOF ==
  /\ conn' = "closed"
  /\ reply' = ""
  /\ respLeft' = 0
  /\ outstanding' = 0
  /\ UNCHANGED <<sentKinds, turn, ft0>>

\* An exception nobody catches ends the process with status 1.
Crash(exception) ==
  /\ pc' = "done"
  /\ exitStatus' = 1
  /\ raised' = exception

SendPcs ==
  {"helo_send", "auth_send", "getsall_send", "getsall_ok1", "getsall_ok2",
   "redy_send", "gets_send", "gets_ok1", "gets_ok2", "schd_send", "quit_send"}
RecvPcs ==
  {"helo_recv", "auth_recv", "getsall_hdr", "getsall_rec", "getsall_dot",
   "event_recv", "gets_hdr", "gets_rec", "gets_dot", "schd_recv"}

\* sock.sendall raises (the peer has closed): no sendall of main() or of
\* gets_servers is inside a try, the QUIT writes included.
SendFails ==
  /\ pc \in SendPcs
  /\ conn = "closed"
  /\ Crash("OSError: sendall")
  /\ quitTried' = (quitTried \/ pc = "quit_send")
  /\ UNCHANGED <<conn, algo, resp1, resp2, n_recs, i_rec, server_state,
                 current_time, event, query, servers, target, quitCode, nEvents,
                 sentKinds, outstanding, respLeft, turn, reply, ft0>>

\* sock.recv raises inside recv_line, outside the try of the shutdown.
RecvRaises ==
  /\ pc \in RecvPcs
  /\ Crash("OSError: recv")
  /\ UNCHANGED <<conn, algo, resp1, resp2, n_recs, i_rec, server_state,
                 current_time, event, query, servers, target, quitCode, nEvents,
                 sentKinds, outstanding, respLeft, turn, reply, ft0, quitTried>>

\* ---- connect and handshake (main, lines 118-146) -----------------------

\* The optional greeting: a line, a time-out, or a peer that closed at once.
ReadBanner ==
  /\ pc = "banner"
  /\ pc' = "helo_send"
  /\ \/ conn' = conn
     \/ conn' = "closed"
  /\ UNCHANGED <<algo, resp1, resp2, n_recs, i_rec, server_state, current_time,
                 event, query, servers, target, quitCode, exitStatus, raised, nEvents,
                 sentKinds, outstanding, respLeft, turn, reply, ft0, quitTried>>

SendHELO ==
  /\ pc = "helo_send"
  /\ Sent("HELO")
  /\ pc' = "helo_recv"
  /\ UNCHANGED <<algo, resp1, resp2, n_recs, i_rec, server_state, current_time,
                 event, query, servers, target, quitCode, exitStatus, raised, nEvents,
                 quitTried>>

RecvHELO ==
  /\ pc = "helo_recv"
  /\ \/ \E r \in Replies : resp1' = r /\ Received(r, 0)
     \/ resp1' = "" /\ ReceivedEOF
  /\ pc' = "auth_send"
  /\ UNCHANGED <<algo, resp2, n_recs, i_rec, server_state, current_time,
                 event, query, servers, target, quitCode, exitStatus, raised, nEvents,
                 quitTried>>

\* AUTH is written whatever resp1 is.
SendAUTH ==
  /\ pc = "auth_send"
  /\ Sent("AUTH")
  /\ pc' = "auth_recv"
  /\ UNCHANGED <<algo, resp1, resp2, n_recs, i_rec, server_state, current_time,
                 event, query, servers, target, quitCode, exitStatus, raised, nEvents,
                 quitTried>>

\* mutant: `and` for `or` in the test of the two replies
HandshakeFailed_And(r1, r2) == r1 # "OK" /\ r2 # "OK"

\* if resp1 != "OK" or resp2 != "OK": QUIT, close, sys.exit(1)
HandshakeFailed(r1, r2) == r1 # "OK" \/ r2 # "OK"

RecvAUTH ==
  /\ pc = "auth_recv"
  /\ \/ \E r \in Replies : resp2' = r /\ Received(r, 0)
     \/ resp2' = "" /\ ReceivedEOF
  /\ IF HandshakeFailed(resp1, resp2')
     THEN pc' = "quit_send" /\ quitCode' = 1
     ELSE pc' = "getsall_send" /\ quitCode' = quitCode
  /\ UNCHANGED <<algo, resp1, n_recs, i_rec, server_state, current_time,
                 event, query, servers, target, exitStatus, raised, nEvents, quitTried>>

\* ---- GETS All (main, lines 148-215) ------------------------------------

SendGetsAll ==
  /\ pc = "getsall_send"
  /\ Sent("GETS All")
  /\ pc' = "getsall_hdr"
  /\ UNCHANGED <<algo, resp1, resp2, n_recs, i_rec, server_state, current_time,
                 event, query, servers, target, quitCode, exitStatus, raised, nEvents,
                 quitTried>>

\* mutant: the record loop stops one record early
MoreRecords_OneShort(i, n) == i + 1 < n

\* for _ in range(n_recs): the loop goes on after i records when i < n_recs
MoreRecords(i, n) == i < n

MaxListed == IF MaxServers <= Cardinality(ServerKeys)
             THEN MaxServers ELSE Cardinality(ServerKeys)

RecvGetsAllHeader ==
  /\ pc = "getsall_hdr"
  /\ \/ \E n \in 0..MaxListed :        \* "DATA n recLen"
          /\ Received("DATA", n + 1)
          /\ n_recs' = n
          /\ pc' = "getsall_ok1"
          /\ UNCHANGED <<quitCode, exitStatus, raised>>
     \/ /\ Received("DATA", 0)         \* "DATA": parts[1] raises IndexError
        /\ Crash("IndexError")
        /\ UNCHANGED <<n_recs, quitCode>>
     \/ /\ Received("ERR", 0)          \* not data_resp.startswith("DATA")
        /\ pc' = "quit_send"
        /\ quitCode' = 1
        /\ UNCHANGED <<n_recs, exitStatus, raised>>
     \/ /\ ReceivedEOF
        /\ pc' = "quit_send"
        /\ quitCode' = 1
        /\ UNCHANGED <<n_recs, exitStatus, raised>>
  /\ UNCHANGED <<algo, resp1, resp2, i_rec, server_state, current_time,
                 event, query, servers, target, nEvents, quitTried>>

SendGetsAllOk1 ==
  /\ pc = "getsall_ok1"
  /\ Sent("OK")
  /\ server_state' = <<>>
  /\ i_rec' = 0
  /\ pc' = IF MoreRecords(0, n_recs) THEN "getsall_rec" ELSE "getsall_ok2"
  /\ UNCHANGED <<algo, resp1, resp2, n_recs, current_time,
                 event, query, servers, target, quitCode, exitStatus, raised, nEvents,
                 quitTried>>

Listed(ss) == {Key(ss[i]) : i \in 1..Len(ss)}

RecvGetsAllRecord ==
  /\ pc = "getsall_rec"
  /\ \/ \E info \in ServerInfos :
          /\ Key(info) \notin Listed(server_state)
          /\ Received("rec", 0)
          /\ server_state' = Append(server_state, info)
          /\ i_rec' = i_rec + 1
          /\ pc' = IF MoreRecords(i_rec + 1, n_recs)
                   THEN "getsall_rec" ELSE "getsall_ok2"
          /\ UNCHANGED <<exitStatus, raised>>
     \/ /\ Received("short", 0)        \* fewer than 7 fields: rec[k] raises
        /\ Crash("IndexError")
        /\ UNCHANGED <<server_state, i_rec>>
     \/ /\ ReceivedEOF                 \* "".split() is []: rec[0] raises
        /\ Crash("IndexError")
        /\ UNCHANGED <<server_state, i_rec>>
  /\ UNCHANGED <<algo, resp1, resp2, n_recs, current_time,
                 event, query, servers, target, quitCode, nEvents, quitTried>>

SendGetsAllOk2 ==
  /\ pc = "getsall_ok2"
  /\ Sent("OK")
  /\ pc' = "getsall_dot"
  /\ UNCHANGED <<algo, resp1, resp2, n_recs, i_rec, server_state, current_time,
                 event, query, servers, target, quitCode, exitStatus, raised, nEvents,
                 quitTried>>

\* _ = recv_line(sock): the line is not looked at
RecvGetsAllDot ==
  /\ pc = "getsall_dot"
  /\ \/ Received(".", 0)
     \/ ReceivedEOF
  /\ current_time' = 0
  /\ pc' = "redy_send"
  /\ UNCHANGED <<algo, resp1, resp2, n_recs, i_rec, server_state,
                 event, query, servers, target, quitCode, exitStatus, raised, nEvents,
                 quitTried>>

\* ---- the scheduling helpers ---------------------------------------------

Eligible(s, job_cores, job_mem, job_disk) ==
  /\ s["cores"] >= job_cores
  /\ s["mem"] >= job_mem
  /\ s["disk"] >= job_disk

\* pick_fastest: the index in `list` of the server it returns, 0 for None.
\* More cores win; on equal cores the smaller (type, int(id)) wins.
pick_fastest(list) ==
  LET best[i \in 0..Len(list)] ==
        IF i = 0 THEN 0
        ELSE IF best[i - 1] = 0 THEN i
        ELSE IF list[i].cores > list[best[i - 1]].cores THEN i
        ELSE IF /\ list[i].cores = list[best[i - 1]].cores
                /\ KeyLess(list[i], list[best[i - 1]]) THEN i
        ELSE best[i - 1]
  IN best[Len(list)]

\* choose_fc: the key of the first server of server_state that can hold the job
choose_fc(ss, job_cores, job_mem, job_disk) ==
  LET ok == {i \in 1..Len(ss) : Eligible(ss[i], job_cores, job_mem, job_disk)}
  IN IF ok = {} THEN None
     ELSE Key(ss[CHOOSE i \in ok : \A j \in ok : i <= j])

\* score of choose_ect, times CostScale
ect_score(s, job_submit, now, rt) ==
  CostScale * (Max(Max(s.finish_time, job_submit), now) + rt) + s.cost * rt

\* choose_ect: the first server of server_state with the least score
choose_ect(ss, now, job_submit, job_cores, job_mem, job_disk, est_runtime) ==
  LET rt == Max(est_runtime, 1)
      best[i \in 0..Len(ss)] ==
        IF i = 0 THEN [key |-> None, score |-> 0]
        ELSE IF /\ Eligible(ss[i], job_cores, job_mem, job_disk)
                /\ \/ best[i - 1].key = None
                   \/ ect_score(ss[i], job_submit, now, rt) < best[i - 1].score
             THEN [key |-> Key(ss[i]),
                   score |-> ect_score(ss[i], job_submit, now, rt)]
             ELSE best[i - 1]
  IN best[Len(ss)].key

\* mutant: rt = est_runtime, without the floor of 1
Booked_RawRuntime(ss, best_key, submit_time, now, est_runtime) ==
  [i \in 1..Len(ss) |->
     IF Key(ss[i]) = best_key
     THEN [ss[i] EXCEPT !.finish_time = Max(Max(@, submit_time), now) + est_runtime]
     ELSE ss[i]]

\* lines 345-353: the finish_time estimate of the chosen server, when it is a
\* server of server_state, moves to the completion time of the job
Booked(ss, best_key, submit_time, now, est_runtime) ==
  LET rt == Max(est_runtime, 1)
  IN [i \in 1..Len(ss) |->
        IF Key(ss[i]) = best_key
        THEN [ss[i] EXCEPT !.finish_time = Max(Max(@, submit_time), now) + rt]
        ELSE ss[i]]

\* lines 297-301: JCPL moves the estimate of server `key` up to t
Completed(ss, key, t) ==
  [i \in 1..Len(ss) |->
     IF Key(ss[i]) = key
     THEN [ss[i] EXCEPT !.finish_time = Max(@, t)]
     ELSE ss[i]]

\* lines 332-353: with best_key chosen (None when the policy found nothing),
\* fall back to the fastest server of all, quit when there is no server at
\* all, else book the server and go on to write SCHD.
Place(bk, ev, now) ==
  LET fastest == pick_fastest(server_state)
      best_key == IF bk # None THEN bk
                  ELSE IF fastest = 0 THEN None
                  ELSE Key(server_state[fastest])
  IN IF best_key = None
     THEN /\ pc' = "quit_send"
          /\ quitCode' = 1
          /\ target' = None
          /\ server_state' = server_state
     ELSE /\ pc' = "schd_send"
          /\ quitCode' = quitCode
          /\ target' = best_key
          /\ server_state' =
               Booked(server_state, best_key, IntOf(ev[2]), now, IntOf(ev[7]))

\* ---- the event loop (main, lines 278-362) ------------------------------

SendREDY ==
  /\ pc = "redy_send"
  /\ Sent("REDY")
  /\ pc' = "event_recv"
  /\ event' = <<>>
  /\ target' = None
  /\ servers' = <<>>
  /\ query' = ""
  /\ n_recs' = 0
  /\ i_rec' = 0
  /\ UNCHANGED <<algo, resp1, resp2, server_state, current_time,
                 quitCode, exitStatus, raised, nEvents, quitTried>>

IsJcpl(ev) == Head4(ev[1]) = "JCPL"
IsIgnored(ev) == Head4(ev[1]) \in {"RESF", "RESR", "CHKQ"}
IsJob(ev) == Head4(ev[1]) \in {"JOBN", "JOBP"}
JobNumeric(ev) == \A k \in {2, 4, 5, 6, 7} : IsNum(ev[k])

\* lines 313-318: the fields of a job event, always read in the one layout
\* submitTime jobID cores memory disk estRuntime
JobOf(ev) ==
  [submit_time |-> IntOf(ev[2]), job_id |-> ev[3], cores |-> IntOf(ev[4]),
   mem |-> IntOf(ev[5]), disk |-> IntOf(ev[6]), est_runtime |-> IntOf(ev[7])]

\* the body of the loop for a non-empty event other than NONE
Dispatch(ev) ==
  IF IsJcpl(ev)
  THEN /\ IF Len(ev) >= MinJcplParts
          THEN /\ current_time' = Max(current_time, IntOf(ev[2]))
               /\ server_state' =
                    Completed(server_state, <<ev[3], ev[4]>>, IntOf(ev[2]))
          ELSE UNCHANGED <<current_time, server_state>>
       /\ pc' = "redy_send"
       /\ UNCHANGED <<query, target, quitCode, exitStatus, raised>>
  ELSE IF IsIgnored(ev)
  THEN /\ pc' = "redy_send"
       /\ UNCHANGED <<current_time, server_state, query, target, quitCode,
                      exitStatus, raised>>
  ELSE IF IsJob(ev)
  THEN IF Len(ev) < MinJobParts
       THEN /\ pc' = "redy_send"
            /\ UNCHANGED <<current_time, server_state, query, target, quitCode,
                           exitStatus, raised>>
       ELSE IF ~JobNumeric(ev)
       THEN /\ Crash("ValueError")      \* int() raises ValueError
            /\ UNCHANGED <<current_time, server_state, query, target, quitCode>>
       ELSE LET submit_time == JobOf(ev).submit_time
                cores == JobOf(ev).cores
                mem == JobOf(ev).mem
                disk == JobOf(ev).disk
                est_runtime == JobOf(ev).est_runtime
                now == Max(current_time, submit_time)
            IN /\ current_time' = now
               /\ UNCHANGED <<exitStatus, raised>>
               /\ IF algo = "fc"
                  THEN /\ Place(choose_fc(server_state, cores, mem, disk), ev, now)
                       /\ UNCHANGED query
                  ELSE IF algo = "fafc"
                  THEN /\ pc' = "gets_send"
                       /\ query' = "Avail"
                       /\ UNCHANGED <<server_state, target, quitCode>>
                  ELSE /\ Place(choose_ect(server_state, now, submit_time, cores,
                                           mem, disk, est_runtime), ev, now)
                       /\ UNCHANGED query
  ELSE /\ pc' = "redy_send"
       /\ UNCHANGED <<current_time, server_state, query, target, quitCode,
                      exitStatus, raised>>

\* mutant: the loop does not break, it goes on to the next REDY
LoopEnds_Continue ==
  /\ pc' = "redy_send"
  /\ quitCode' = quitCode

\* break: on to the clean shutdown of lines 364-372, sys.exit(0)
LoopEnds ==
  /\ pc' = "quit_send"
  /\ quitCode' = 0

RecvEvent ==
  /\ pc = "event_recv"
  /\ \/ /\ ReceivedEOF                 \* if not event: break
        /\ event' = <<>>
        /\ LoopEnds
        /\ UNCHANGED <<current_time, server_state, query, target, exitStatus, raised,
                       nEvents>>
     \/ /\ Received("NONE", 0)         \* if event == "NONE": break
        /\ event' = <<"NONE">>
        /\ LoopEnds
        /\ UNCHANGED <<current_time, server_state, query, target, exitStatus, raised,
                       nEvents>>
     \/ /\ nEvents < MaxEvents
        /\ \E ev \in Events :
             /\ Received(ev[1], 0)
             /\ event' = ev
             /\ nEvents' = nEvents + 1
             /\ Dispatch(ev)
  /\ UNCHANGED <<algo, resp1, resp2, n_recs, i_rec, servers, quitTried>>

\* ---- choose_fafc and gets_servers (lines 19-74, 229-246) ---------------

GetsKind(q) == IF q = "Avail" THEN "GETS Avail" ELSE "GETS Capable"

SendGets ==
  /\ pc = "gets_send"
  /\ Sent(GetsKind(query))
  /\ pc' = "gets_hdr"
  /\ UNCHANGED <<algo, resp1, resp2, n_recs, i_rec, server_state, current_time,
                 event, query, servers, target, quitCode, exitStatus, raised, nEvents,
                 quitTried>>

\* gets_servers returned `list` to choose_fafc: a non-empty list decides, an
\* empty Avail list leads to GETS Capable, an empty Capable list to the
\* fastest server of all (None when there is none).  The locals of
\* gets_servers end with the call.
AfterGets(list) ==
  /\ servers' = <<>>
  /\ n_recs' = 0
  /\ i_rec' = 0
  /\ IF list # <<>>
     THEN /\ Place(Key(list[pick_fastest(list)]), event, current_time)
          /\ UNCHANGED query
     ELSE IF query = "Avail"
     THEN /\ pc' = "gets_send"
          /\ query' = "Capable"
          /\ UNCHANGED <<server_state, target, quitCode>>
     ELSE /\ Place(None, event, current_time)
          /\ UNCHANGED query

RecvGetsHeader ==
  /\ pc = "gets_hdr"
  /\ \/ \E n \in 0..MaxRecs :          \* "DATA n recLen"
          /\ Received("DATA", n + 1)
          /\ n_recs' = n
          /\ pc' = "gets_ok1"
          /\ UNCHANGED <<i_rec, servers, query, server_state, target, quitCode,
                         exitStatus, raised>>
     \/ /\ Received("DATA", 0)         \* "DATA": parts[1] raises IndexError
        /\ Crash("IndexError")
        /\ UNCHANGED <<n_recs, i_rec, servers, query, server_state, target,
                       quitCode>>
     \/ /\ Received("ERR", 0)          \* not header.startswith("DATA"): []
        /\ AfterGets(<<>>)
        /\ UNCHANGED <<exitStatus, raised>>
     \/ /\ ReceivedEOF
        /\ AfterGets(<<>>)
        /\ UNCHANGED <<exitStatus, raised>>
  /\ UNCHANGED <<algo, resp1, resp2, current_time, event, nEvents, quitTried>>

SendGetsOk1 ==
  /\ pc = "gets_ok1"
  /\ Sent("OK")
  /\ servers' = <<>>
  /\ i_rec' = 0
  /\ pc' = IF MoreRecords(0, n_recs) THEN "gets_rec" ELSE "gets_ok2"
  /\ UNCHANGED <<algo, resp1, resp2, n_recs, server_state, current_time,
                 event, query, target, quitCode, exitStatus, raised, nEvents, quitTried>>

RecvGetsRecord ==
  /\ pc = "gets_rec"
  /\ \/ \E rec \in AvailRecs :
          /\ Received("rec", 0)
          /\ servers' = Append(servers, rec)
          /\ i_rec' = i_rec + 1
          /\ pc' = IF MoreRecords(i_rec + 1, n_recs)
                   THEN "gets_rec" ELSE "gets_ok2"
          /\ UNCHANGED <<exitStatus, raised>>
     \/ /\ Received("short", 0)        \* fewer than 7 fields: rec[k] raises
        /\ Crash("IndexError")
        /\ UNCHANGED <<servers, i_rec>>
     \/ /\ ReceivedEOF                 \* "".split() is []: rec[0] raises
        /\ Crash("IndexError")
        /\ UNCHANGED <<servers, i_rec>>
  /\ UNCHANGED <<algo, resp1, resp2, n_recs, server_state, current_time,
                 event, query, target, quitCode, nEvents, quitTried>>

\* mutant: gets_servers returns after the second OK, the "." is left unread
SendGetsOk2_NoSentinel ==
  /\ pc = "gets_ok2"
  /\ Sent("OK")
  /\ AfterGets(servers)
  /\ UNCHANGED <<algo, resp1, resp2, current_time, event, exitStatus, raised,
                 nEvents, quitTried>>

SendGetsOk2 ==
  /\ pc = "gets_ok2"
  /\ Sent("OK")
  /\ pc' = "gets_dot"
  /\ UNCHANGED <<algo, resp1, resp2, n_recs, i_rec, server_state, current_time,
                 event, query, servers, target, quitCode, exitStatus, raised, nEvents,
                 quitTried>>

\* _ = recv_line(sock), then return servers
RecvGetsDot ==
  /\ pc = "gets_dot"
  /\ \/ Received(".", 0)
     \/ ReceivedEOF
  /\ AfterGets(servers)
  /\ UNCHANGED <<algo, resp1, resp2, current_time, event, exitStatus, raised, nEvents,
                 quitTried>>

\* ---- SCHD (lines 355-360) ----------------------------------------------

SendSCHD ==
  /\ pc = "schd_send"
  /\ Sent("SCHD")
  /\ pc' = "schd_recv"
  /\ UNCHANGED <<algo, resp1, resp2, n_recs, i_rec, server_state, current_time,
                 event, query, servers, target, quitCode, exitStatus, raised, nEvents,
                 quitTried>>

\* _ = recv_line(sock): the reply is not looked at
RecvSCHD ==
  /\ pc = "schd_recv"
  /\ \/ \E r \in Replies : Received(r, 0)
     \/ ReceivedEOF
  /\ pc' = "redy_send"
  /\ UNCHANGED <<algo, resp1, resp2, n_recs, i_rec, server_state, current_time,
                 event, query, servers, target, quitCode, exitStatus, raised, nEvents,
                 quitTried>>

\* ---- shutdown (lines 140-146, 153-159, 336-342, 365-372) ---------------

SendQUIT ==
  /\ pc = "quit_send"
  /\ Sent("QUIT")
  /\ quitTried' = TRUE
  /\ pc' = "quit_recv"
  /\ UNCHANGED <<algo, resp1, resp2, n_recs, i_rec, server_state, current_time,
                 event, query, servers, target, quitCode, exitStatus, raised, nEvents>>

\* try: recv_line(sock) except Exception: pass; sock.close(); sys.exit(code)
RecvQUIT ==
  /\ pc = "quit_recv"
  /\ \/ Received("QUIT", 0)
     \/ ReceivedEOF
     \/ UNCHANGED <<conn, sentKinds, outstanding, respLeft, turn, reply, ft0>>
  /\ pc' = "done"
  /\ exitStatus' = quitCode
  /\ raised' = raised
  /\ UNCHANGED <<algo, resp1, resp2, n_recs, i_rec, server_state, current_time,
                 event, query, servers, target, quitCode, nEvents, quitTried>>

Next ==
  \/ ReadBanner
  \/ SendHELO
  \/ RecvHELO
  \/ SendAUTH
  \/ RecvAUTH
  \/ SendGetsAll
  \/ RecvGetsAllHeader
  \/ SendGetsAllOk1
  \/ RecvGetsAllRecord
  \/ SendGetsAllOk2
  \/ RecvGetsAllDot
  \/ SendREDY
  \/ RecvEvent
  \/ SendGets
  \/ RecvGetsHeader
  \/ SendGetsOk1
  \/ RecvGetsRecord
  \/ SendGetsOk2
  \/ RecvGetsDot
  \/ SendSCHD
  \/ RecvSCHD
  \/ SendQUIT
  \/ RecvQUIT
  \/ SendFails
  \/ RecvRaises

Spec == Init /\ [][Next]_vars

\* ======================================================================
\* Properties
\* ======================================================================

LoopCmds == {"GETS All", "GETS Avail", "GETS Capable", "REDY", "SCHD"}
CommandPcs ==
  {"helo_send", "auth_send", "getsall_send", "redy_send", "gets_send",
   "schd_send", "quit_send"}

Count(seq, x) == Cardinality({i \in 1..Len(seq) : seq[i] = x})
Range(seq) == {seq[i] : i \in 1..Len(seq)}

\* the SCHD reply last read was a rejection: a line other than OK
Rejected == reply \notin {"OK", ""}

\* the job of the event being handled
JobCores == IntOf(event[4])
JobMem == IntOf(event[5])
JobDisk == IntOf(event[6])
JobSubmit == IntOf(event[2])
JobEst == IntOf(event[7])

\* C1: when the reply to HELO or the reply to AUTH is not OK, no GETS, REDY
\* or SCHD is ever written and the process ends with a non-zero status; so
\* the loop is entered only after two OK replies.
C1_HandshakeGating ==
  (resp1 # "OK" \/ resp2 # "OK") =>
    /\ sentKinds \cap LoopCmds = {}
    /\ pc = "done" => exitStatus # 0

\* C1 witness: AUTH was answered ERR and the run has ended with status 1
C1_Witness ==
  /\ pc = "done"
  /\ resp1 = "OK"
  /\ resp2 = "ERR"
  /\ "QUIT" \in sentKinds
  /\ exitStatus = 1

\* C2: at most one command is outstanding, and whenever the client is about
\* to write a command the response to the previous one is consumed in full
\* (header, records and sentinel of a batch included).
C2_HalfDuplex ==
  /\ outstanding <= 1
  /\ pc \in CommandPcs => (outstanding = 0 /\ respLeft = 0)

\* C2 witness: a non-empty GETS Avail batch was read to its sentinel and SCHD
\* is the next command
C2_Witness ==
  /\ pc = "schd_send"
  /\ algo = "fafc"
  /\ query = "Avail"
  /\ turn = <<"REDY", "GETS Avail", "OK", "OK">>
  /\ reply = "."
  /\ outstanding = 0

\* C3 as claimed: the server named in SCHD can hold the job whenever some
\* server of the catalog can.
C3_EligibleDecision ==
  pc = "schd_send" =>
    LET able == {i \in 1..Len(server_state) :
                   Eligible(server_state[i], JobCores, JobMem, JobDisk)}
    IN able # {} => \E i \in able : target = Key(server_state[i])

\* C4 as claimed: a rejected SCHD is followed by one more SCHD for the job
\* before the next REDY, and no turn holds more than two SCHD.
C4_RetryOnce ==
  /\ Count(turn, "SCHD") <= 2
  /\ (pc = "redy_send" /\ Count(turn, "SCHD") >= 1 /\ Rejected)
       => Count(turn, "SCHD") = 2

\* C5: after NONE nothing but QUIT is written, QUIT is written, and the
\* process ends with status 0 whatever the read of the QUIT reply gives; until
\* then the shutdown can always take its next step.
C5_NoneTerminal ==
  event = <<"NONE">> =>
    /\ pc \in {"quit_send", "quit_recv", "done"}
    /\ pc = "quit_send" => turn = <<"REDY">>
    /\ pc \in {"quit_recv", "done"} => turn = <<"REDY", "QUIT">>
    /\ pc = "done" => (exitStatus = 0 /\ raised = "")
    /\ pc # "done" => ENABLED (SendQUIT \/ RecvQUIT)

\* C5 witness: NONE was the first event, the catalog is empty, the peer
\* closed instead of answering QUIT, and the run ended with status 0
C5_Witness ==
  /\ pc = "done"
  /\ event = <<"NONE">>
  /\ server_state = <<>>
  /\ nEvents = 0
  /\ conn = "closed"
  /\ exitStatus = 0

\* C6 as claimed: a run that ends on one of the listed paths (not by a socket
\* call that raised before the shutdown) has tried to write QUIT, and a QUIT
\* write that fails leaves the exit status what the shutdown planned.
C6_AlwaysQuit ==
  pc = "done" =>
    /\ raised \in {"", "IndexError", "ValueError"} => quitTried
    /\ quitTried => exitStatus = quitCode

\* C7 as claimed: status 0 only for a run that ended with NONE.
C7_ZeroOnlyAfterNone ==
  (pc = "done" /\ exitStatus = 0) => event = <<"NONE">>

\* C8 as claimed: ect does not choose B when an eligible A is predicted to
\* complete the job earlier, max(freeAt, submitTime) + estRuntime taken on
\* the state before the decision.  It is stated for the turns in which the
\* tracked current time is the submit time of the job: there the start time
\* of choose_ect, max(finish_time, job_submit, current_time), is the claim's.
Predicted(s) == Max(s.finish_time, JobSubmit) + JobEst
C8_EctMonotone ==
  (pc = "schd_send" /\ algo = "ect" /\ current_time = JobSubmit) =>
    \A a, b \in 1..Len(ft0) :
      (/\ Eligible(ft0[a], JobCores, JobMem, JobDisk)
       /\ Eligible(ft0[b], JobCores, JobMem, JobDisk)
       /\ Predicted(ft0[a]) < Predicted(ft0[b]))
        => target # Key(ft0[b])

\* C9 as claimed: after a job event whose SCHD was rejected every server's
\* free time is what it was before the event.
C9_StateOnlyOnOk ==
  (pc = "redy_send" /\ Count(turn, "SCHD") >= 1 /\ Rejected)
    => server_state = ft0

\* C10 as claimed: after JCPL <time> <jobId> <type> <id> for a server of the
\* catalog, that server's free time is at most <time> and no other changed.
C10_JcplFreesServer ==
  (/\ pc = "redy_send"
   /\ Len(event) >= MinJcplParts
   /\ IsJcpl(event)
   /\ <<event[4], event[5]>> \in Listed(server_state))
    => \A i \in 1..Len(server_state) :
         IF Key(server_state[i]) = <<event[4], event[5]>>
         THEN server_state[i].finish_time <= IntOf(event[2])
         ELSE server_state[i].finish_time = ft0[i].finish_time

\* C11 as claimed: after RESF / RESR <type> <id> for a server of the catalog
\* the free time of that server is back at what GETS All gave for it; the
\* estimate that earlier dispatches built up is gone.
C11_ResetOnFailure ==
  (/\ pc = "redy_send"
   /\ Len(event) >= 3
   /\ event[1] \in {"RESF", "RESR"}
   /\ <<event[2], event[3]>> \in Listed(server_state))
    => \A i \in 1..Len(server_state) :
         Key(server_state[i]) = <<event[2], event[3]>>
           => server_state[i].finish_time \in CurStarts

\* C12 as claimed: the event CHKQ is answered with OK before the next REDY.
C12_ChkqAck ==
  (pc = "redy_send" /\ event = <<"CHKQ">>) => turn = <<"REDY", "OK">>

\* C13 as claimed: an event whose tag is none of the seven tags leads to the
\* next REDY with nothing written in between, the free times and the tracked
\* current time as they were, and the run goes on.
KnownTags == {"NONE", "JOBN", "JOBP", "JCPL", "RESF", "RESR", "CHKQ"}
C13_UnknownNoOp ==
  [][(/\ pc = "event_recv"
      /\ event' # <<>>
      /\ event'[1] \notin KnownTags)
       => /\ pc' = "redy_send"
          /\ server_state' = server_state
          /\ current_time' = current_time]_vars

\* the last k messages written in this turn
LastSent(k) == SubSeq(turn, Len(turn) - k + 1, Len(turn))
GetsAllPcs == {"getsall_ok1", "getsall_rec", "getsall_ok2", "getsall_dot"}
GetsPcs == {"gets_ok1", "gets_rec", "gets_ok2", "gets_dot"}

\* C14: a batch answered DATA n is taken in the order OK, n records, OK,
\* sentinel: at each position of GETS All and of GETS Avail / Capable the
\* lines read and the lines still due add up to n records and one sentinel,
\* the records are read between the two OK, the query returns with nothing
\* due, and no line is read that is not due.
C14_BatchFraming ==
  /\ (pc \in RecvPcs /\ conn = "open") => respLeft >= 1
  /\ pc \in GetsAllPcs => Len(server_state) = i_rec
  /\ pc \in GetsPcs => Len(servers) = i_rec
  /\ pc \in {"getsall_ok1", "gets_ok1"} =>
       /\ reply = "DATA"
       /\ respLeft = n_recs + 1
       /\ LastSent(1) \in {<<"GETS All">>, <<"GETS Avail">>, <<"GETS Capable">>}
  /\ pc \in {"getsall_rec", "gets_rec"} =>
       /\ i_rec < n_recs
       /\ respLeft = (n_recs - i_rec) + 1
       /\ LastSent(1) = <<"OK">>
       /\ LastSent(2) # <<"OK", "OK">>
  /\ pc \in {"getsall_ok2", "gets_ok2"} =>
       /\ i_rec = n_recs
       /\ respLeft = 1
       /\ LastSent(1) = <<"OK">>
       /\ LastSent(2) # <<"OK", "OK">>
  /\ pc \in {"getsall_dot", "gets_dot"} =>
       /\ i_rec = n_recs
       /\ respLeft = 1
       /\ LastSent(2) = <<"OK", "OK">>
  /\ (pc \in CommandPcs /\ reply = ".") =>
       /\ respLeft = 0
       /\ LastSent(3) \in {<<"GETS All", "OK", "OK">>, <<"GETS Avail", "OK", "OK">>,
                           <<"GETS Capable", "OK", "OK">>}

\* C14 witness: the GETS All batch of two records is drained and the first
\* REDY is the next message
C14_Witness ==
  /\ pc = "redy_send"
  /\ turn = <<"HELO", "AUTH", "GETS All", "OK", "OK">>
  /\ n_recs = 2
  /\ Len(server_state) = 2
  /\ reply = "."
  /\ respLeft = 0

\* C15 as claimed: an Avail reply that holds no server with the cores of the
\* job is followed by GETS Capable; GETS Capable is written only after
\* GETS Avail of the same job; the client gives up on a job only when the
\* catalog is empty.
C15_Widening ==
  [][/\ (/\ pc = "gets_dot"
          /\ query = "Avail"
          /\ raised' = ""
          /\ \A k \in 1..Len(servers) : servers[k].cores < JobCores)
           => (pc' = "gets_send" /\ query' = "Capable")
     /\ (pc' = "gets_send" /\ query' = "Capable")
           => (query \in {"Avail", "Capable"} /\ "GETS Avail" \in Range(turn))
     /\ (pc \in {"event_recv", "gets_hdr", "gets_dot"} /\ pc' = "quit_send"
           /\ quitCode' = 1)
           => server_state = <<>>]_vars

\* the largest value of field f over the catalog
FleetMax(f) ==
  IF server_state = <<>> THEN 0
  ELSE CHOOSE m \in {server_state[i][f] : i \in 1..Len(server_state)} :
         \A i \in 1..Len(server_state) : server_state[i][f] <= m
FitsCoresFirst(ev) ==
  /\ IntOf(ev[4]) <= FleetMax("cores")
  /\ IntOf(ev[5]) <= FleetMax("mem")
  /\ IntOf(ev[6]) <= FleetMax("disk")
FitsEstFirst(ev) ==
  /\ IntOf(ev[5]) <= FleetMax("cores")
  /\ IntOf(ev[6]) <= FleetMax("mem")
  /\ IntOf(ev[7]) <= FleetMax("disk")
\* the event of the same job with the demand first and estRuntime last
CoresFirstOf(ev) == <<ev[1], ev[2], ev[3], ev[5], ev[6], ev[7], ev[4]>>
Demand(job) == <<job.cores, job.mem, job.disk, job.est_runtime>>

\* C16 as claimed: a job event that has estRuntime first (its first value
\* field is above the most cores of the catalog, the next three fit the
\* catalog) gives the client the demand and runtime that the event of the
\* same job with the demand first gives it.
C16_LayoutAgnostic ==
  (/\ pc \in {"schd_send", "gets_send"}
   /\ event[1] \in {"JOBN", "JOBP"}
   /\ ~FitsCoresFirst(event)
   /\ FitsEstFirst(event))
    => Demand(JobOf(event)) = Demand(JobOf(CoresFirstOf(event)))

\* C17 as claimed: a job event with fewer than six numeric fields, or whose
\* fields fit the catalog in neither layout, leads to the next REDY with
\* nothing written and no free time changed; the run goes on.
Unparseable(ev) ==
  \/ Len(ev) < MinJobParts
  \/ ~JobNumeric(ev)
  \/ (~FitsCoresFirst(ev) /\ ~FitsEstFirst(ev))
C17_SkipUnparseable ==
  (/\ event # <<>>
   /\ event[1] \in {"JOBN", "JOBP"}
   /\ server_state # <<>>
   /\ Unparseable(event))
    => /\ pc = "redy_send"
       /\ turn = <<"REDY">>
       /\ server_state = ft0

\* C18 as claimed: AUTH is written only after the reply OK to HELO.
C18_AuthAfterHeloOk ==
  "AUTH" \in sentKinds => resp1 = "OK"

\* C19 as claimed: with a catalog that is not empty, the next REDY after a
\* JOBN / JOBP event of six fields or more comes after a SCHD of this turn;
\* SCHD names a server of the catalog or of the GETS reply just read; and
\* SCHD is prepared only in the turn of an event whose tag is JOBN or JOBP.
C19_DispatchIffJob ==
  [][/\ (/\ pc' = "redy_send"
          /\ pc # "redy_send"
          /\ server_state' # <<>>
          /\ Len(event') >= MinJobParts
          /\ event'[1] \in {"JOBN", "JOBP"})
           => "SCHD" \in Range(turn')
     /\ (pc' = "schd_send" /\ pc # "schd_send")
           => /\ event'[1] \in {"JOBN", "JOBP"}
              /\ target' \in Listed(server_state') \cup Listed(servers)]_vars

StartupPcs ==
  {"banner", "helo_send", "helo_recv", "auth_send", "auth_recv",
   "getsall_send", "getsall_hdr", "getsall_ok1", "getsall_rec"}

\* C20: no step lowers the tracked current time; once the records of GETS All
\* are read no step changes the keys of the scheduler state or lowers a free
\* time; and the step that decides a dispatch to a server of the catalog
\* raises its free time to at least 1 above the larger of its free time
\* before and the tracked current time.
C20_MonotoneTime ==
  [][/\ current_time' >= current_time
     /\ pc \notin StartupPcs =>
          /\ Len(server_state') = Len(server_state)
          /\ \A i \in 1..Len(server_state) :
               /\ Key(server_state'[i]) = Key(server_state[i])
               /\ server_state'[i].finish_time >= server_state[i].finish_time
     /\ (pc' = "schd_send" /\ pc # "schd_send") =>
          \A i \in 1..Len(server_state) :
            Key(server_state[i]) = target' =>
              server_state'[i].finish_time >=
                Max(server_state[i].finish_time, current_time') + 1]_vars

\* C20 witness: after a completion at time 5 a job of estimated runtime 0,
\* submitted at 1, is booked on that server, whose free time is now 6
C20_Witness ==
  /\ pc = "schd_send"
  /\ event = <<"JOBN", "1", "7", "1", "1", "1", "0">>
  /\ current_time = 5
  /\ \E i \in 1..Len(server_state) :
       /\ Key(server_state[i]) = target
       /\ ft0[i].finish_time = 5
       /\ server_state[i].finish_time = 6

====
